---------------------------- MODULE Spec2Model ----------------------------
(***************************************************************************)
(* py_ncdiff: comparison of two netCDF files (src/py_ncdiff.py).           *)
(*                                                                         *)
(* The state is the netCDF_comp_class object (the two opened datasets,     *)
(* quiet, common_vars, test_results), the parsed command line (args.vars), *)
(* the text sent to the logger, and the position of __main__.  Every       *)
(* method called by __main__ is one action.                                *)
(*                                                                         *)
(* A dataset is  [vars |-> <enumeration of names>, ds |-> [name -> var]]   *)
(* and a variable is                                                       *)
(*   [dtype, dims, sizes (xarray's .sizes: dimension name -> length),      *)
(*    attrs (dict: key -> value), data (the array, flattened, C order)].   *)
(* Floating point values are small integers plus NaN.  Variables have at   *)
(* most one dimension and are never coordinate variables, so the flat      *)
(* index of an element is its np.argwhere row.                             *)
(***************************************************************************)
EXTENDS Integers, Sequences, FiniteSets, TLC

VARIABLES
    baseline,      \* self.baseline  ('vars' and 'ds')
    new_file,      \* self.new_file  ('vars' and 'ds')
    quiet,         \* self.quiet  (args.quiet)
    args_vars,     \* args.vars  (--vars): {} for None, {S} for the names S given
    common_vars,   \* self.common_vars, a list
    test_results,  \* self.test_results, an OrderedDict: list of entries in insertion order
    baseline_only, \* baseline_only of compare_variable_names
    new_file_only, \* new_file_only of compare_variable_names
    remove_var,    \* remove_var of compare_variable_type_and_dims
    iterated,      \* per stage, the variables its "for var in self.common_vars" visited
    log,           \* the lines handed to logger.info, in order
    err_cnt,       \* err_cnt of __main__, the exit status
    pc             \* position of __main__

vars == <<baseline, new_file, quiet, args_vars, common_vars, test_results,
          baseline_only, new_file_only, remove_var, iterated, log, err_cnt, pc>>

---------------------------------------------------------------------------
(* Bounds and input domains *)

MaxDimLen == 2

NaN == -1

IsNaN(v) == v = NaN

DTypes == {"float32", "float64"}

DimNames == {"x", "y"}

AttrKeys == {"valid_min"}

Range(s) == {s[i] : i \in DOMAIN s}

RECURSIVE Product(_, _)
\* product of the dimension lengths: the number of elements of an array
Product(dims, sizes) ==
    IF dims = <<>> THEN 1 ELSE sizes[Head(dims)] * Product(Tail(dims), sizes)

\* all enumerations, without repetition, of the set S
Perms(S) ==
    {s \in [1..Cardinality(S) -> S] : \A i, j \in 1..Cardinality(S) : s[i] = s[j] => i = j}

\* all dicts with keys among K and values among V
Dicts(K, V) == UNION {[D -> V] : D \in SUBSET K}

\* the variables a file whose dimensions have the lengths dimlen can hold
VariablesOf(dtypes, dimseqs, dimlen, attrsets, vals) ==
    UNION {
        {[dtype |-> t, dims |-> d, sizes |-> [n \in Range(d) |-> dimlen[n]],
          attrs |-> a, data |-> x] :
            t \in dtypes, a \in attrsets, x \in [1..Product(d, dimlen) -> vals]}
        : d \in dimseqs}

\* the open files whose variable names are enumerated by one of nameseqs
DatasetsOf(nameseqs, variables) ==
    UNION {{[vars |-> s, ds |-> f] : f \in [Range(s) -> variables]} : s \in nameseqs}

---------------------------------------------------------------------------
(* Python, numpy and xarray operations the methods use *)

\* u == v on two separately loaded values: a NaN equals nothing, itself included
PyEq(u, v) == ~IsNaN(u) /\ ~IsNaN(v) /\ u = v

\* dict_a != dict_b  (lines 238): same keys and == values, or they differ
AttrsNe(a, b) ==
    ~(DOMAIN a = DOMAIN b /\ \A k \in DOMAIN a : PyEq(a[k], b[k]))

\* baseline .sizes != new .sizes  (line 197): Mapping comparison, name -> length
SizesNe(bv, nv) ==
    ~(DOMAIN bv.sizes = DOMAIN nv.sizes /\ \A n \in DOMAIN bv.sizes : bv.sizes[n] = nv.sizes[n])

\* .ndim and .size of a variable
Ndim(v) == Len(v.dims)

Size(v) == Product(v.dims, v.sizes)

\* .equals taken to compare only the positions present on both sides
EqualsWhereBothPresent(bv, nv) ==
    /\ bv.dims = nv.dims
    /\ Len(bv.data) = Len(nv.data)
    /\ \A i \in 1..Len(bv.data) :
          IsNaN(bv.data[i]) \/ IsNaN(nv.data[i]) \/ bv.data[i] = nv.data[i]

\* xarray .equals (line 273): same dims, same shape, and every position either
\* == or NaN on both sides
Equals(bv, nv) ==
    /\ bv.dims = nv.dims
    /\ Len(bv.data) = Len(nv.data)
    /\ \A i \in 1..Len(bv.data) :
          PyEq(bv.data[i], nv.data[i]) \/ (IsNaN(bv.data[i]) /\ IsNaN(nv.data[i]))

RECURSIVE ArgwhereFrom(_, _, _)
ArgwhereFrom(data, ndim, i) ==
    IF i > Len(data) THEN <<>>
    ELSE (IF IsNaN(data[i]) THEN <<[c \in 1..ndim |-> i - 1]>> ELSE <<>>)
         \o ArgwhereFrom(data, ndim, i + 1)

\* np.argwhere(np.isnan(data)): one row of ndim indices per NaN, in C order
\* (a 0-d array gives rows of no columns)
ArgwhereIsNaN(data, ndim) == ArgwhereFrom(data, ndim, 1)

\* np.any(A != B) on two index arrays of shapes (Len(A), ndim) and (Len(B), ndim)
\* (line 325).  When the row counts broadcast (equal, or one of them 1) the
\* comparison is elementwise, a one-row array being repeated and a no-row array
\* giving no element at all.  When they do not broadcast, numpy < 1.25 warns and
\* answers True, numpy >= 1.25 raises ValueError: both outcomes are possible.
MaskTest(A, B, ndim) ==
    LET ka == Len(A)
        kb == Len(B)
        rows == IF ka = 1 THEN kb ELSE ka
    IN  IF ka = kb \/ ka = 1 \/ kb = 1
        THEN {IF \E r \in 1..rows : \E c \in 1..ndim :
                    A[IF ka = 1 THEN 1 ELSE r][c] # B[IF kb = 1 THEN 1 ELSE r][c]
              THEN "differ" ELSE "same"}
        ELSE {"differ", "ValueError"}

\* positions not masked by np.ma.masked_invalid in both arrays (lines 327-328)
Unmasked(data) == {i \in 1..Len(data) : ~IsNaN(data[i])}

\* np.ma.any(baseline_masked != new_file_masked)  (line 329)
ValuesDiffer(b, n) ==
    \E i \in Unmasked(b) \cap Unmasked(n) : b[i] # n[i]

Abs(v) == IF v < 0 THEN -v ELSE v

SetMax(S) == CHOOSE m \in S : \A v \in S : v <= m

\* np.max(np.abs(baseline_masked - new_file_masked))  (line 330)
MaskedDiff(b, n) ==
    SetMax({Abs(b[i] - n[i]) : i \in Unmasked(b) \cap Unmasked(n)})

\* "{}".format / "%s" of a float whose value is integral, or NaN
FormatFloat(v) == IF IsNaN(v) THEN "nan" ELSE ToString(v) \o ".0"

\* "{}".format(masked_diff / np.amax(np.abs(baseline_masked)))  (lines 333-334)
FormatQuotient(num, den) ==
    IF num % den = 0 THEN FormatFloat(num \div den)
    ELSE ToString(num) \o ".0/" \o ToString(den) \o ".0"

\* the lines get_value_differences logs, given the outcome of the mask test
ValueDifferenceLines(bv, nv, mask) ==
    <<"... variable is " \o bv.dtype \o " ...">>
    \o (IF mask = "differ" THEN <<"... Masks are not the same">> ELSE <<>>)
    \o (IF ValuesDiffer(bv.data, nv.data)
        THEN <<"... Biggest (absolute) diff = " \o FormatFloat(MaskedDiff(bv.data, nv.data))>>
             \o (IF \E i \in Unmasked(bv.data) : bv.data[i] # 0
                 THEN <<"... Biggest (relative) diff = "
                        \o FormatQuotient(MaskedDiff(bv.data, nv.data),
                                          SetMax({Abs(bv.data[i]) : i \in Unmasked(bv.data)}))>>
                 ELSE <<>>)
        ELSE <<>>)
    \o <<"">>

\* get_value_differences(baseline_data, new_file_data): the possible outcomes,
\* each the lines logged and whether the call raised
get_value_differences(bv, nv) ==
    {IF mask = "ValueError"
     THEN [raised |-> TRUE, lines |-> <<"... variable is " \o bv.dtype \o " ...">>]
     ELSE [raised |-> FALSE, lines |-> ValueDifferenceLines(bv, nv, mask)]
     : mask \in MaskTest(ArgwhereIsNaN(bv.data, Ndim(bv)), ArgwhereIsNaN(nv.data, Ndim(nv)),
                         Ndim(bv))}

\* get_metadata_differences(baseline_attrs, new_file_attrs): the lines logged.
\* Dicts of the model hold at most the keys of AttrKeys, enumerated in SeqOf order.
RECURSIVE SeqOf(_)
SeqOf(S) == IF S = {} THEN <<>> ELSE LET k == CHOOSE k \in S : TRUE IN <<k>> \o SeqOf(S \ {k})

RECURSIVE LinesFrom(_, _)
LinesFrom(ss, i) == IF i > Len(ss) THEN <<>> ELSE ss[i] \o LinesFrom(ss, i + 1)

\* the lines of a loop, given the lines of each of its iterations
Lines(ss) == LinesFrom(ss, 1)

get_metadata_differences(a, b) ==
    LET common_attrs == SeqOf(DOMAIN a \cap DOMAIN b)
        only_in_baseline == SeqOf(DOMAIN a \ DOMAIN b)
        only_in_new_file == SeqOf(DOMAIN b \ DOMAIN a)
    IN  (IF Cardinality(DOMAIN a) # Cardinality(DOMAIN b)
            \/ Cardinality(DOMAIN a) # Len(common_attrs)
         THEN [i \in DOMAIN only_in_baseline |-> only_in_baseline[i] \o " not defined in new_file"]
              \o [i \in DOMAIN only_in_new_file |-> only_in_new_file[i] \o " not defined in baseline"]
         ELSE <<>>)
        \o Lines([i \in DOMAIN common_attrs |->
                    LET k == common_attrs[i]
                    IN  IF ~PyEq(a[k], b[k])
                        THEN <<k \o " is '" \o FormatFloat(a[k]) \o "' in baseline but '"
                               \o FormatFloat(b[k]) \o "' in new_file">>
                        ELSE <<>>])

---------------------------------------------------------------------------
(* netCDF_comp_class *)

NamesDesc == "Compare Variable Names"

TypesDesc == "Compare Variable Types and Dimensions"

MetadataDesc == "Compare Metadata"

ValuesDesc == "Compare Values"

\* the two counts given in the other order
FailMsgSwapped(k, n) == ToString(n) \o "/" \o ToString(k) \o " pass"

\* "%d/%d pass" % (k, n)
FailMsg(k, n) == ToString(k) \o "/" \o ToString(n) \o " pass"

\* [var for var in s if var not in self.common_vars]
NotCommon(s, common) == SelectSeq(s, LAMBDA var : var \notin Range(common))

\* 1-based numbered lines "%d. %s" of a list (lines 145-146, 149-150)
Numbered(s) == [n \in 1..Len(s) |-> ToString(n) \o ". " \o s[n]]

\* the entry of self.test_results a stage leaves: "fail_msg" only when it fails
Entry(desc, pass, result, fail_msg) ==
    IF pass THEN [desc |-> desc, pass |-> TRUE, result |-> result]
    ELSE [desc |-> desc, pass |-> FALSE, result |-> result, fail_msg |-> fail_msg]

\* the union taken for the intersection
CommonVarsUnion(b, n) == Perms(Range(b.vars) \cup Range(n.vars))

\* __init__, line 104: list(set(baseline vars) & set(new_file vars)), in any order
CommonVars(b, n) == Perms(Range(b.vars) \cap Range(n.vars))

compare_variable_names ==
    /\ pc = "names"
    /\ pc' = "types"
    /\ IF common_vars = <<>>
       THEN /\ log' = Append(log, NamesDesc \o ": no variables to test!")
            /\ UNCHANGED <<test_results, baseline_only, new_file_only>>
       ELSE IF Len(baseline.vars) = Len(new_file.vars) /\ Len(baseline.vars) = Len(common_vars)
       THEN /\ test_results' = Append(test_results,
                Entry(NamesDesc, TRUE,
                      "Variable list matches -- all variables exist in both files", ""))
            /\ UNCHANGED <<log, baseline_only, new_file_only>>
       ELSE LET b_only == NotCommon(baseline.vars, common_vars)
                n_only == NotCommon(new_file.vars, common_vars)
                success_cnt == Len(common_vars)
                fail_cnt == Len(b_only) + Len(n_only)
            IN  /\ baseline_only' = b_only
                /\ new_file_only' = n_only
                /\ log' = IF quiet THEN log
                          ELSE log
                               \o (IF b_only # <<>>
                                   THEN <<ToString(Len(b_only))
                                          \o " variable(s) are in the baseline but not the new file:">>
                                        \o Numbered(b_only)
                                   ELSE <<>>)
                               \o (IF n_only # <<>>
                                   THEN <<ToString(Len(n_only))
                                          \o " variable(s) are in the new file but not the baseline:">>
                                        \o Numbered(n_only)
                                   ELSE <<>>)
                               \o <<"">>
                /\ test_results' = Append(test_results,
                     Entry(NamesDesc, FALSE,
                           "Variable list does not match -- " \o ToString(fail_cnt)
                           \o " variables exist in one file but not the other, only "
                           \o ToString(success_cnt) \o " in both",
                           FailMsg(success_cnt, success_cnt + fail_cnt)))
    /\ UNCHANGED <<baseline, new_file, quiet, args_vars, common_vars, remove_var, iterated,
                   err_cnt>>

\* the branch of lines 181-203 a variable takes: "dtype", "ndim", "sizes" or "same"
TypeAndDimsCheck(bv, nv) ==
    IF bv.dtype # nv.dtype THEN "dtype"
    ELSE IF Ndim(bv) # Ndim(nv) THEN "ndim"
    ELSE IF SizesNe(bv, nv) THEN "sizes"
    ELSE "same"

\* the line logged for a variable taking that branch
TypeAndDimsLine(var, bv, nv) ==
    LET check == TypeAndDimsCheck(bv, nv)
    IN  IF check = "dtype"
        THEN <<var \o " is type " \o bv.dtype \o " in baseline and type " \o nv.dtype
               \o " in new file">>
        ELSE IF check = "ndim"
        THEN <<var \o " has " \o ToString(Ndim(bv)) \o " dimensions in baseline and "
               \o ToString(Ndim(nv)) \o " dimensions in new file">>
        ELSE IF check = "sizes"
        THEN <<var \o " has size " \o ToString(Size(bv)) \o " in baseline and size "
               \o ToString(Size(nv)) \o " in new file">>
        ELSE <<>>

\* only the first variable of remove_var removed
RemoveFirst(common, removed) ==
    SelectSeq(common, LAMBDA var : removed = <<>> \/ var # removed[1])

\* for var in remove_var: self.common_vars.remove(var)  (lines 209-210)
RemoveAll(common, removed) == SelectSeq(common, LAMBDA var : var \notin Range(removed))

compare_variable_type_and_dims ==
    /\ pc = "types"
    /\ pc' = "metadata"
    /\ IF common_vars = <<>>
       THEN /\ log' = Append(log, TypesDesc \o ": no variables to test!")
            /\ UNCHANGED <<test_results, common_vars, remove_var, iterated>>
       ELSE LET removed == SelectSeq(common_vars, LAMBDA var :
                               TypeAndDimsCheck(baseline.ds[var], new_file.ds[var]) # "same")
                total_cnt == Len(common_vars)
                fail_cnt == Len(removed)
            IN  /\ remove_var' = removed
                /\ iterated' = [iterated EXCEPT !.types = common_vars]
                /\ log' = IF quiet THEN log
                          ELSE log \o Lines([i \in DOMAIN common_vars |->
                                               TypeAndDimsLine(common_vars[i],
                                                               baseline.ds[common_vars[i]],
                                                               new_file.ds[common_vars[i]])])
                /\ common_vars' = RemoveAll(common_vars, removed)
                /\ test_results' = Append(test_results,
                     IF removed # <<>>
                     THEN Entry(TypesDesc, FALSE,
                                "Variable types / dimensions do not match -- "
                                \o ToString(fail_cnt) \o " of " \o ToString(total_cnt)
                                \o " variables that appear in both files differ in type or dimension",
                                FailMsg(total_cnt - fail_cnt, total_cnt))
                     ELSE Entry(TypesDesc, TRUE,
                                "All " \o ToString(total_cnt)
                                \o " variables that appear in both files have same type / dimension",
                                ""))
    /\ UNCHANGED <<baseline, new_file, quiet, args_vars, baseline_only, new_file_only, err_cnt>>

compare_metadata ==
    /\ pc = "metadata"
    /\ pc' = "values"
    /\ IF common_vars = <<>>
       THEN /\ log' = Append(log, MetadataDesc \o ": no variables to test!")
            /\ UNCHANGED <<test_results, iterated>>
       ELSE LET differs(var) == AttrsNe(baseline.ds[var].attrs, new_file.ds[var].attrs)
                fail_cnt == Len(SelectSeq(common_vars, differs))
                var_cnt == Len(common_vars)
            IN  /\ iterated' = [iterated EXCEPT !.metadata = common_vars]
                /\ log' = IF quiet THEN log
                          ELSE log \o Lines([i \in DOMAIN common_vars |->
                                               LET var == common_vars[i]
                                               IN  IF differs(var)
                                                   THEN <<"Metadata difference in " \o var \o ":">>
                                                        \o get_metadata_differences(
                                                             baseline.ds[var].attrs,
                                                             new_file.ds[var].attrs)
                                                   ELSE <<>>])
                /\ test_results' = Append(test_results,
                     IF fail_cnt # 0
                     THEN Entry(MetadataDesc, FALSE,
                                "Metadata does not match -- " \o ToString(fail_cnt) \o " of "
                                \o ToString(var_cnt)
                                \o " variables with same type / dimensions differ",
                                FailMsg(var_cnt - fail_cnt, var_cnt))
                     ELSE Entry(MetadataDesc, TRUE,
                                "All " \o ToString(var_cnt)
                                \o " variables with same type / dimensions have same metadata",
                                ""))
    /\ UNCHANGED <<baseline, new_file, quiet, args_vars, common_vars, baseline_only,
                   new_file_only, remove_var, err_cnt>>

RECURSIVE ValuesLoop(_, _, _, _)
\* the loop of lines 270-277 from the i-th variable on: the possible outcomes, each
\* the lines logged, the failures counted, the variables visited and whether
\* get_value_differences raised (which ends the loop and the run)
ValuesLoop(cv, i, lines, fail_cnt) ==
    IF i > Len(cv)
    THEN {[raised |-> FALSE, lines |-> lines, fail_cnt |-> fail_cnt, visited |-> cv]}
    ELSE LET bv == baseline.ds[cv[i]]
             nv == new_file.ds[cv[i]]
         IN  IF Equals(bv, nv) THEN ValuesLoop(cv, i + 1, lines, fail_cnt)
             ELSE IF quiet THEN ValuesLoop(cv, i + 1, lines, fail_cnt + 1)
             ELSE UNION {
                    IF o.raised
                    THEN {[raised |-> TRUE,
                           lines |-> lines \o <<"Variable: " \o cv[i] \o " ...">> \o o.lines,
                           fail_cnt |-> fail_cnt + 1, visited |-> SubSeq(cv, 1, i)]}
                    ELSE ValuesLoop(cv, i + 1,
                                    lines \o <<"Variable: " \o cv[i] \o " ...">> \o o.lines,
                                    fail_cnt + 1)
                    : o \in get_value_differences(bv, nv)}

compare_values ==
    /\ pc = "values"
    /\ IF common_vars = <<>>
       THEN /\ log' = Append(log, ValuesDesc \o ": no variables to test!")
            /\ pc' = "parse"
            /\ UNCHANGED <<test_results, iterated>>
       ELSE \E o \in ValuesLoop(common_vars, 1, <<>>, 0) :
              LET var_cnt == Len(common_vars)
              IN  /\ iterated' = [iterated EXCEPT !.values = o.visited]
                  /\ log' = log \o o.lines
                  /\ IF o.raised
                     THEN \* the ValueError leaves the entry of lines 267-268 and ends the run
                          /\ pc' = "raised"
                          /\ test_results' = Append(test_results,
                                                    [desc |-> ValuesDesc, pass |-> TRUE])
                     ELSE /\ pc' = "parse"
                          /\ test_results' = Append(test_results,
                               IF o.fail_cnt # 0
                               THEN Entry(ValuesDesc, FALSE,
                                          "Variable values do not match -- "
                                          \o ToString(o.fail_cnt) \o " of " \o ToString(var_cnt)
                                          \o " variables with same type / dimensions differ",
                                          FailMsg(var_cnt - o.fail_cnt, var_cnt))
                               ELSE Entry(ValuesDesc, TRUE,
                                          "All " \o ToString(var_cnt)
                                          \o " variables with same type / dimensions have same values",
                                          ""))
    /\ UNCHANGED <<baseline, new_file, quiet, args_vars, common_vars, baseline_only,
                   new_file_only, remove_var, err_cnt>>

\* the line parse_results logs for the n-th entry (lines 349-356)
ResultLine(n, r) ==
    "(" \o ToString(n) \o ") "
    \o (IF quiet
        THEN (IF r.pass THEN r.desc \o ": PASS"
              ELSE r.desc \o ": FAIL (" \o r.fail_msg \o ")")
        ELSE r.result)

\* every entry counted, passed or not
EntryCount(results) == Len(results)

\* the fail_cnt parse_results returns (lines 344-348, 357)
FailCount(results) == Len(SelectSeq(results, LAMBDA r : ~r.pass))

\* __main__, lines 399-405: the summary, parse_results and sys.exit(err_cnt)
parse_results ==
    /\ pc = "parse"
    /\ pc' = "done"
    /\ log' = log \o <<"Summary", "-------">>
                  \o [n \in 1..Len(test_results) |-> ResultLine(n, test_results[n])]
    /\ err_cnt' = FailCount(test_results)
    /\ UNCHANGED <<baseline, new_file, quiet, args_vars, common_vars, test_results,
                   baseline_only, new_file_only, remove_var, iterated>>

---------------------------------------------------------------------------
(* The runs explored: the command lines and pairs of files *)

Vals == {0, 1, NaN}

UnitLengths == [n \in DimNames |-> 1]

DimLengths == [DimNames -> 1..MaxDimLen]

\* every enumeration of every subset of Names
NameSeqs(Names) == UNION {Perms(S) : S \in SUBSET Names}

\* args.vars is None
NoVars == {}

\* --vars: absent, or one or more names (nargs='+')
ArgsVars(Names) == {NoVars} \cup {{S} : S \in SUBSET Names \ {{}}}

\* files of one or two variables that differ in type, attribute presence and
\* value
PipelineFiles ==
    DatasetsOf({<<"temp">>, <<"salt">>, <<"temp", "salt">>},
               VariablesOf(DTypes, {<<"x">>}, UnitLengths, Dicts(AttrKeys, {0}), {0, 1}))

\* files of two variables that differ in type, dimensions and dimension lengths
ShapeFiles ==
    UNION {DatasetsOf({<<"temp", "salt">>},
                      VariablesOf(DTypes, {<<>>, <<"x">>, <<"y">>}, dimlen, {<<>>}, {0}))
           : dimlen \in DimLengths}

\* files of one variable that differ in attribute values, length and values
ValueFiles ==
    UNION {DatasetsOf({<<"temp">>},
                      VariablesOf({"float64"}, {<<"x">>}, dimlen,
                                  Dicts(AttrKeys, Vals), Vals))
           : dimlen \in DimLengths}

\* files of no to three alike variables, in every enumeration order
NameFiles ==
    DatasetsOf(NameSeqs({"temp", "salt", "depth"}),
               VariablesOf({"float64"}, {<<"x">>}, UnitLengths, {<<>>}, {0}))

\* netCDF_comp_class.__init__ on two files that open, after _parse_args
Construct(files, quiets, argsvars) ==
    /\ baseline \in files
    /\ new_file \in files
    /\ quiet \in quiets
    /\ args_vars \in argsvars
    /\ common_vars \in CommonVars(baseline, new_file)
    /\ test_results = <<>>
    /\ baseline_only = <<>>
    /\ new_file_only = <<>>
    /\ remove_var = <<>>
    /\ iterated = [types |-> <<>>, metadata |-> <<>>, values |-> <<>>]
    /\ log = <<>>
    /\ err_cnt = 0
    /\ pc = "names"

Init ==
    \/ Construct(PipelineFiles, BOOLEAN, {NoVars})
    \/ Construct(ShapeFiles, {FALSE}, {NoVars})
    \/ Construct(ValueFiles, BOOLEAN, {NoVars})
    \/ Construct(NameFiles, BOOLEAN, ArgsVars({"temp", "salt", "depth"}))

Next ==
    \/ compare_variable_names
    \/ compare_variable_type_and_dims
    \/ compare_metadata
    \/ compare_values
    \/ parse_results

Spec == Init /\ [][Next]_vars

---------------------------------------------------------------------------
(* Vocabulary of the properties *)

BaselineNames == Range(baseline.vars)

NewNames == Range(new_file.vars)

WorkingSet == Range(common_vars)

\* the Test Results recorded for a stage
ResultsOf(desc) == {i \in DOMAIN test_results : test_results[i].desc = desc}

Recorded(desc) == ResultsOf(desc) # {}

Passed(desc) == Recorded(desc) /\ \A i \in ResultsOf(desc) : test_results[i].pass

Failed(desc) == Recorded(desc) /\ \A i \in ResultsOf(desc) : ~test_results[i].pass

StageNo(desc) ==
    CASE desc = NamesDesc -> 1 [] desc = TypesDesc -> 2
      [] desc = MetadataDesc -> 3 [] desc = ValuesDesc -> 4

\* positions of __main__ after a stage has returned
AfterNames == {"types", "metadata", "values", "parse", "done", "raised"}

AfterTypes == {"metadata", "values", "parse", "done", "raised"}

AfterMetadata == {"values", "parse", "done", "raised"}

AfterValues == {"parse", "done"}

\* the lengths of a variable's dimensions, in order
Shape(v) == [i \in 1..Len(v.dims) |-> v.sizes[v.dims[i]]]

\* the positions of an array that hold NaN
NaNPositions(data) == {i \in 1..Len(data) : IsNaN(data[i])}

\* values_differ of the Numeric Diff Engine: some position present on both sides differs
JointlyDiffer(b, n) ==
    \E i \in 1..Len(b) : ~IsNaN(b[i]) /\ ~IsNaN(n[i]) /\ b[i] # n[i]

\* a pure mask mismatch: the NaN positions differ, the jointly present values do not
PureMaskMismatch(var) ==
    /\ NaNPositions(baseline.ds[var].data) # NaNPositions(new_file.ds[var].data)
    /\ ~JointlyDiffer(baseline.ds[var].data, new_file.ds[var].data)

\* the two arrays of a variable agree: same NaN positions, same values elsewhere
SameArrays(var) ==
    /\ NaNPositions(baseline.ds[var].data) = NaNPositions(new_file.ds[var].data)
    /\ ~JointlyDiffer(baseline.ds[var].data, new_file.ds[var].data)

SameDType(var) == baseline.ds[var].dtype = new_file.ds[var].dtype

SameShape(var) == Shape(baseline.ds[var]) = Shape(new_file.ds[var])

SameDims(var) == baseline.ds[var].dims = new_file.ds[var].dims

\* same keys, and under each key the same number (a NaN matches nothing)
SameAttrs(var) ==
    LET a == baseline.ds[var].attrs
        b == new_file.ds[var].attrs
    IN  /\ DOMAIN a = DOMAIN b
        /\ \A k \in DOMAIN a : a[k] = b[k] /\ ~IsNaN(a[k])

MaskLine == "... Masks are not the same"

---------------------------------------------------------------------------
(* C1 *)

\* C1: comparing a dataset against itself ends with verdict 0 and every recorded
\* Test Result passed.
C1_SelfComparisonPasses ==
    (baseline = new_file /\ pc = "done")
        => (err_cnt = 0 /\ \A i \in DOMAIN test_results : test_results[i].pass)

---------------------------------------------------------------------------
(* C2 *)

\* C2: once Stage 1 has run, equal name sets give PASS whatever the enumeration
\* orders, a name exclusive to one side gives FAIL, and then baseline_only and
\* new_file_only are exactly the names of one side missing from the other.
C2_NamesStageVerdict ==
    pc \in AfterNames =>
        /\ BaselineNames = NewNames => Passed(NamesDesc)
        /\ BaselineNames # NewNames =>
              /\ Failed(NamesDesc)
              /\ baseline_only = SelectSeq(baseline.vars, LAMBDA v : v \notin NewNames)
              /\ new_file_only = SelectSeq(new_file.vars, LAMBDA v : v \notin BaselineNames)

---------------------------------------------------------------------------
(* C3 *)

\* C3: Stage 1 always records a Test Result, also when the two files share no
\* name; each of stages 2-4 records one exactly when the working set it starts
\* from is not empty.
C3_StageOneAlwaysRuns ==
    /\ pc \in AfterNames => Recorded(NamesDesc)
    /\ pc \in AfterTypes => (Recorded(TypesDesc) <=> BaselineNames \cap NewNames # {})
    /\ pc \in AfterMetadata => (Recorded(MetadataDesc) <=> WorkingSet # {})
    /\ pc \in AfterValues => (Recorded(ValuesDesc) <=> WorkingSet # {})

---------------------------------------------------------------------------
(* C4 *)

---------------------------------------------------------------------------
(* C5 *)

\* the properties of Stage 2 that do not depend on what "identical" means: a
\* disqualified variable differs in dtype, dimension count or shape or dimension
\* names, is visited by neither Stage 3 nor Stage 4, and the working set after
\* Stage 2 is the common names minus the disqualified ones
StageTwoNarrowing ==
    /\ \A var \in Range(remove_var) :
          /\ var \in BaselineNames \cap NewNames
          /\ ~(SameDType(var) /\ SameShape(var) /\ SameDims(var))
    /\ WorkingSet = (BaselineNames \cap NewNames) \ Range(remove_var)
    /\ Range(iterated.metadata) \cap Range(remove_var) = {}
    /\ Range(iterated.values) \cap Range(remove_var) = {}
    /\ pc \in AfterMetadata /\ WorkingSet # {} => Range(iterated.metadata) = WorkingSet

---------------------------------------------------------------------------
(* C6 *)

\* C6: the verdict is the number of failed Test Results, no stage has two Test
\* Results, and they are held in stage order.
C6_VerdictCountsFailures ==
    /\ \A i, j \in DOMAIN test_results :
          i < j => StageNo(test_results[i].desc) < StageNo(test_results[j].desc)
    /\ pc = "done" =>
          err_cnt = Cardinality({i \in DOMAIN test_results : test_results[i].pass = FALSE})

\* a finished run with four Test Results, two of them failed
C6_Witness ==
    /\ pc = "done"
    /\ Len(test_results) = 4
    /\ err_cnt = 2
    /\ Passed(NamesDesc)
    /\ Failed(ValuesDesc)

---------------------------------------------------------------------------
(* C7 *)

\* the passing and total counts a failing stage should report
PassCount(desc) ==
    CASE desc = NamesDesc -> Cardinality(BaselineNames \cap NewNames)
      [] desc = TypesDesc ->
            Cardinality({var \in BaselineNames \cap NewNames :
                            SameDType(var) /\ SameShape(var) /\ SameDims(var)})
      [] desc = MetadataDesc -> Cardinality({var \in WorkingSet : SameAttrs(var)})
      [] desc = ValuesDesc -> Cardinality({var \in WorkingSet : SameArrays(var)})

TotalCount(desc) ==
    CASE desc = NamesDesc -> Cardinality(BaselineNames \cup NewNames)
      [] desc = TypesDesc -> Cardinality(BaselineNames \cap NewNames)
      [] desc = MetadataDesc -> Cardinality(WorkingSet)
      [] desc = ValuesDesc -> Cardinality(WorkingSet)

\* C7: every failed Test Result has a fail_msg "<k>/<n> pass" with 0 <= k < n, k
\* and n as the stage defines them, and in quiet mode the summary gives it the
\* line "<stage_name>: FAIL (<k>/<n> pass)".
C7_FailMessage ==
    pc \in {"parse", "done"} =>
        \A i \in DOMAIN test_results :
            LET r == test_results[i]
                k == PassCount(r.desc)
                n == TotalCount(r.desc)
            IN  ~r.pass =>
                  /\ "fail_msg" \in DOMAIN r
                  /\ 0 <= k /\ k < n
                  /\ r.fail_msg = ToString(k) \o "/" \o ToString(n) \o " pass"
                  /\ (pc = "done" /\ quiet) =>
                        \E l \in DOMAIN log :
                            log[l] = "(" \o ToString(i) \o ") " \o r.desc \o ": FAIL ("
                                     \o ToString(k) \o "/" \o ToString(n) \o " pass)"

\* a quiet run in which Stage 1 failed with 2 of 3 names shared and a later stage
\* failed too
C7_Witness ==
    /\ pc = "done"
    /\ quiet
    /\ Failed(NamesDesc)
    /\ Cardinality(BaselineNames \cap NewNames) = 2
    /\ Cardinality(BaselineNames \cup NewNames) = 3
    /\ \E l \in DOMAIN log : log[l] = "(1) Compare Variable Names: FAIL (2/3 pass)"

\* a quiet run in which stages 2, 3 and 4 each failed on one variable
C7_WitnessLaterStages ==
    /\ pc = "done"
    /\ quiet
    /\ Failed(TypesDesc) /\ Failed(MetadataDesc) /\ Failed(ValuesDesc)

---------------------------------------------------------------------------
(* C8 *)

\* C8: with --vars given, no variable outside the filter enters the working set,
\* and no name absent from a file is taken to be in it.
C8_FilterRestrictsWorkingSet ==
    \A filter \in args_vars :
        /\ WorkingSet \subseteq filter
        /\ WorkingSet \subseteq BaselineNames \cap NewNames
        /\ \A i \in DOMAIN iterated.values : iterated.values[i] \in filter

---------------------------------------------------------------------------
(* C9 *)

\* C9: the working set is the exact intersection of the two name sets before and
\* after Stage 1, whether it passes or fails; no step ever adds a name to it;
\* only Stage 2 changes it, and stages 3 and 4 leave it as it is also when
\* they fail.
C9_WorkingSetNeverGrows ==
    [][/\ pc \in {"names", "types"} =>
            /\ WorkingSet = BaselineNames \cap NewNames
            /\ Len(common_vars) = Cardinality(WorkingSet)
       /\ Range(common_vars') \subseteq WorkingSet
       /\ pc # "types" => common_vars' = common_vars]_vars

\* a finished run in which Stage 2 removed a variable, Stage 3 and Stage 4 failed,
\* and a variable is left
C9_Witness ==
    /\ pc = "done"
    /\ Failed(MetadataDesc) /\ Failed(ValuesDesc)
    /\ remove_var # <<>>
    /\ WorkingSet # {}
    /\ WorkingSet # BaselineNames \cap NewNames

---------------------------------------------------------------------------
(* C10 *)

\* C10: when get_value_differences has run on the one common variable, it logged
\* 'Masks are not the same' exactly when the NaN positions of the two arrays
\* differ.
C10_MaskSignal ==
    (pc \in AfterValues /\ ~quiet /\ Len(common_vars) = 1 /\ Failed(ValuesDesc))
        => LET var == common_vars[1]
           IN  (\E l \in DOMAIN log : log[l] = MaskLine)
                   <=> NaNPositions(baseline.ds[var].data) # NaNPositions(new_file.ds[var].data)

===========================================================================
